---- MODULE Spec2Model ----
(***************************************************************************)
(* Motion scheduling of pixi-live2d-display: MotionManager (startMotion,   *)
(* startRandomMotion, update, stopAllMotions, speak) driving a MotionState *)
(* arbitration machine, under cooperative single-threaded scheduling with  *)
(* suspension at the awaits of startMotion.                                *)
(***************************************************************************)
EXTENDS Integers, Sequences, FiniteSets, TLC

(* ------------------------------ bounds -------------------------------- *)

\* number of definitions in the idle group and in the "Tap" group
NIdle == 1
NTap == 1
\* startMotion calls suspended at an await at the same time
MaxCalls == 2
\* sound instances playing at the same time
MaxSounds == 2
\* samples in the analyser's buffer, and the largest amplitude in tenths
PcmLen == 2
MaxAmp == 3
\* calls of registerRuntime
MaxRuntimes == 3
\* the Cubism 2 parse() calls begun in one run
MaxParses == 3
\* the largest dt of one update() call, in milliseconds, and the largest
\* elapsedTime followed
MaxDt == 2
MaxElapsed == 5
\* the update() calls between two renders
MaxFrames == 2

(* ---------------------------- priorities ------------------------------ *)

NONE == 0
IDLE == 1
NORMAL == 2
FORCE == 3

Priorities == {IDLE, NORMAL, FORCE}

(* ---------------------------- definitions ----------------------------- *)

\* this.groups.idle
IdleGroup == "Idle"

\* groups present in this.definitions
DefGroups == {"Idle", "Tap"}

\* this.definitions[group]?.length, 0 when the group is absent
DefLen(g) == IF g = "Idle" THEN NIdle ELSE IF g = "Tap" THEN NTap ELSE 0

\* the (group, index) pairs that have a definition
Slots == {s \in DefGroups \X (0 .. (NIdle + NTap)) : s[2] < DefLen(s[1])}

\* the (group, index) pairs callers pass: every slot and an index past the
\* end of a group; the groups include one the settings do not define
ReqSlots == Slots \cup {<<"Tap", NTap>>}
ReqGroups == {"Idle", "Tap", "Nope"}

\* undefined group / index
NoSlot == <<"", -1>>

\* the slots whose motion comes with a sound to register
SoundSlots == {s \in Slots : s[1] = "Tap"}

\* the settings a model can be constructed from, by what the adapters' test()
\* makes of them
Sources == {"model.json", "model3.json", "either", "other"}

\* the runtime adapters there are to register: version and what test() accepts
Adapters ==
    {[id |-> "cubism2", version |-> 2, accepts |-> {"model.json", "either"}],
     [id |-> "cubism4", version |-> 4, accepts |-> {"model3.json", "either"}],
     [id |-> "cubism4b", version |-> 4, accepts |-> {"model3.json"}]}

\* findRuntime found nothing
NoRuntime == [id |-> "undefined", version |-> 0, accepts |-> {}]

\* what the ready() callback of the Live2DModel constructor creates
Parts == {"internalModel", "motionManager", "textures", "ticker"}

\* a Live2DModel not constructed yet
NoModel == [status |-> "none", source |-> "other", runtime |-> "undefined", parts |-> {}]

\* the assets a settings file can refer to
Assets == {"moc", "texture0", "texture1", "motion", "sound", "physics", "expression",
           "pose"}

\* the assets every settings file refers to
Required == {"moc", "texture0", "texture1"}

VARIABLES
    slot,          \* motionGroups: "unloaded" (undefined), "loaded", "failed" (null)
    sounds,        \* _sounds: the slots with a registered sound
    cfgSound,      \* config.sound
    state,         \* the MotionState
    motionActive,  \* _motionActive
    playingSound,  \* _playingSound
    currentSound,  \* _currentSound: "none", "user" (speak), "motion" (startMotion)
    analyser,      \* _currentAnalyser is set
    finished,      \* isFinished() of the runtime
    calls,         \* startMotion calls suspended at an await, oldest first
    playing,       \* sound instances playing, by who started them
    userOpts,      \* the options of each playing sound started by speak()
    exprMgr,       \* the manager has an expressionManager
    phase,         \* construction: "new", "constructed" (init() done), "ready"
    preload,       \* options.motionPreload: "NONE", "ALL", "IDLE", "absent"
    requested,     \* the slots setupMotions called loadMotion for
    destroyed,     \* destroyed; definitions and motionGroups are undefined then
    lip,           \* the last mouthSync() call: the buffer it read and its value
    runtimes,      \* RuntimeManager.runtimes
    registered,    \* the adapters handed to registerRuntime, in call order
    model,         \* the Live2DModel under construction: its status, runtime and parts
    refs,          \* the assets the settings handed to parse() refer to
    loads,         \* loader.load of each referred asset: "pending", "resolved", "rejected"
    modelData,     \* modelData of parse(): what is stored at each asset's key
    parse,         \* the promise of parse(): "idle", "pending", "resolved", "rejected"
    bitmap,        \* loadTextures.config.preferCreateImageBitmap
    parses,        \* the Cubism 2 parse() calls begun, oldest first: status, saved flag
    timer,         \* Live2DModel: deltaTime, elapsedTime, wasUpdated, what was advanced
    interaction,   \* Live2DModel: followMouse, touchEvents and the listeners registered
    op,            \* the last operation
    ret,           \* what the last operation returned or resolved with
    log            \* what the last operation did, in order

vars == <<slot, sounds, cfgSound, state, motionActive, playingSound, currentSound,
          analyser, finished, calls, playing, userOpts, exprMgr, phase, preload,
          requested, destroyed, lip, runtimes, registered, model, refs, loads,
          modelData, parse, bitmap, parses, timer, interaction, op, ret, log>>

\* what lies outside the motion manager: the lip-sync reading, the runtime
\* registry, the model under construction, the loader, and in rest the
\* texture loader's global flag and the Live2DModel's timer and listeners
registry == <<runtimes, registered, model>>
loader == <<refs, loads, modelData, parse>>
rest == <<bitmap, parses, timer, interaction>>
apart == <<lip, registry, loader, rest>>

\* what the motion manager's operations leave alone between construction
\* and destroy()
setup == <<exprMgr, phase, preload, requested, destroyed, apart>>

\* the motion manager, but for what its last operation was
manager == <<slot, sounds, cfgSound, state, motionActive, playingSound, currentSound,
             analyser, finished, calls, playing, userOpts, exprMgr, phase, preload,
             requested, destroyed>>

(* ----------------------------- MotionState ---------------------------- *)

IdleState == [reserved |-> NoSlot, reservedPriority |-> NONE,
              current |-> NoSlot, currentPriority |-> NONE]

\* reserve(group, index, priority) returns true
canReserve(st, g, i, p) ==
    \/ p = FORCE
    \/ /\ p > st.currentPriority
       /\ p > st.reservedPriority

reserve(st, g, i, p) ==
    IF canReserve(st, g, i, p)
    THEN [st EXCEPT !.reserved = <<g, i>>, !.reservedPriority = p]
    ELSE st

\* start(motion, group, index, priority) returns true: the call's
\* (group, index) is the reserved one and the motion is a handle (startMotion
\* hands the motion it started with to the runtime as non-null)
canStart(st, m, g, i) == st.reserved = <<g, i>> /\ m = "handle"

start(st, m, g, i, p) ==
    IF canStart(st, m, g, i)
    THEN [st EXCEPT !.current = <<g, i>>, !.currentPriority = p,
                    !.reserved = NoSlot, !.reservedPriority = NONE]
    ELSE st

isActive(st, g, i) == st.reserved = <<g, i>> \/ st.current = <<g, i>>

complete(st) == [st EXCEPT !.current = NoSlot, !.currentPriority = NONE]

reset(st) == IdleState

shouldRequestIdleMotion(st) == st.current = NoSlot /\ st.reserved = NoSlot

\* a motion above IDLE is the current one
shouldOverrideExpression(st) == st.currentPriority > IDLE

(* ----------------------------- helpers -------------------------------- *)

Has(lg, ev) == \E k \in DOMAIN lg : lg[k] = ev

Count(lg, ev) == Cardinality({k \in DOMAIN lg : lg[k] = ev})

\* position of the first ev in lg, 0 when absent
Pos(lg, ev) ==
    IF Has(lg, ev) THEN CHOOSE k \in DOMAIN lg :
                            lg[k] = ev /\ \A j \in DOMAIN lg : lg[j] = ev => k <= j
    ELSE 0

Remove(seq, k) == [j \in 1 .. (Len(seq) - 1) |-> IF j < k THEN seq[j] ELSE seq[j + 1]]

PlayingTotal == playing.motion + playing.rejected + playing.user

(* ---------------------------- MotionManager --------------------------- *)

HasDefinition(g, i) == <<g, i>> \in Slots

\* loadMotion handing out a handle for a slot marked failed
loadMotion_IgnoreFailed(g, i) ==
    IF ~HasDefinition(g, i) THEN "undefined"
    ELSE IF slot[<<g, i>>] = "unloaded" THEN "undefined"
    ELSE "handle"

\* loadMotion(group, index): the stored handle when the slot is loaded,
\* undefined when the definition is absent, the slot failed or not loaded
loadMotion(g, i) ==
    IF ~HasDefinition(g, i) THEN "undefined"
    ELSE IF slot[<<g, i>>] = "failed" THEN "undefined"
    ELSE IF slot[<<g, i>>] = "loaded" THEN "handle"
    ELSE "undefined"

NewCall(g, i, p, snd) ==
    [group |-> g, index |-> i, priority |-> p, sound |-> snd,
     motion |-> loadMotion(g, i), pc |-> "load"]

\* startMotionBegin without the check of reserve()'s result
startMotionBegin_NoReserveCheck(st, g, i, p, snd) ==
    IF playingSound
    THEN [state |-> st, res |-> "false", call |-> <<>>, log |-> <<>>]
    ELSE IF ~HasDefinition(g, i)
    THEN [state |-> reserve(st, g, i, p), res |-> "false", call |-> <<>>,
          log |-> <<"reserve">>]
    ELSE [state |-> reserve(st, g, i, p), res |-> "pending",
          call |-> <<NewCall(g, i, p, snd)>>, log |-> <<"reserve", "loadMotion">>]

\* startMotionBegin refusing every request while a motion is playing
startMotionBegin_BusyRejects(st, g, i, p, snd) ==
    IF playingSound \/ st.current # NoSlot
    THEN [state |-> st, res |-> "false", call |-> <<>>, log |-> <<>>]
    ELSE IF ~canReserve(st, g, i, p)
    THEN [state |-> st, res |-> "false", call |-> <<>>, log |-> <<>>]
    ELSE IF ~HasDefinition(g, i)
    THEN [state |-> reserve(st, g, i, p), res |-> "false", call |-> <<>>,
          log |-> <<"reserve">>]
    ELSE [state |-> reserve(st, g, i, p), res |-> "pending",
          call |-> <<NewCall(g, i, p, snd)>>, log |-> <<"reserve", "loadMotion">>]

\* startMotionBegin going on without a definition
startMotionBegin_NoDefinitionCheck(st, g, i, p, snd) ==
    IF playingSound
    THEN [state |-> st, res |-> "false", call |-> <<>>, log |-> <<>>]
    ELSE IF ~canReserve(st, g, i, p)
    THEN [state |-> st, res |-> "false", call |-> <<>>, log |-> <<>>]
    ELSE [state |-> reserve(st, g, i, p), res |-> "pending",
          call |-> <<NewCall(g, i, p, snd)>>, log |-> <<"reserve", "loadMotion">>]

\* startMotionBegin without the audio guard
startMotionBegin_NoAudioGuard(st, g, i, p, snd) ==
    IF ~canReserve(st, g, i, p)
    THEN [state |-> st, res |-> "false", call |-> <<>>, log |-> <<>>]
    ELSE IF ~HasDefinition(g, i)
    THEN [state |-> reserve(st, g, i, p), res |-> "false", call |-> <<>>,
          log |-> <<"reserve">>]
    ELSE [state |-> reserve(st, g, i, p), res |-> "pending",
          call |-> <<NewCall(g, i, p, snd)>>, log |-> <<"reserve", "loadMotion">>]

\* startMotion up to its first await: the audio guard, the reservation and
\* the definition lookup; the call is left suspended at await loadMotion
startMotionBegin(st, g, i, p, snd) ==
    IF playingSound
    THEN [state |-> st, res |-> "false", call |-> <<>>, log |-> <<>>]
    ELSE IF ~canReserve(st, g, i, p)
    THEN [state |-> st, res |-> "false", call |-> <<>>, log |-> <<>>]
    ELSE IF ~HasDefinition(g, i)
    THEN [state |-> reserve(st, g, i, p), res |-> "false", call |-> <<>>,
          log |-> <<"reserve">>]
    ELSE [state |-> reserve(st, g, i, p), res |-> "pending",
          call |-> <<NewCall(g, i, p, snd)>>, log |-> <<"reserve", "loadMotion">>]

\* what startMotion does after the commit left MotionState st: the
\* expression reset, the motionStart event, the motionActive flag and the
\* runtime start
afterStart(st) ==
    (IF shouldOverrideExpression(st) /\ exprMgr THEN <<"resetExpression">> ELSE <<>>)
        \o <<"motionStart", "motionActive", "_startMotion">>

\* startMotionCommit going on whatever start() returned
startMotionCommit_NoCheck(st, c, p, inst) ==
    [state |-> [st EXCEPT !.current = <<c.group, c.index>>, !.currentPriority = p],
     ok |-> TRUE, stopped |-> FALSE,
     log |-> <<"start", "motionStart", "motionActive", "_startMotion">>]

\* startMotionCommit leaving the sound of a rejected call playing
startMotionCommit_NoStop(st, c, p, inst) ==
    IF ~canStart(st, c.motion, c.group, c.index)
    THEN [state |-> st, ok |-> FALSE, stopped |-> FALSE, log |-> <<"startRejected">>]
    ELSE [state |-> start(st, c.motion, c.group, c.index, p), ok |-> TRUE, stopped |-> FALSE,
          log |-> <<"start">> \o afterStart(start(st, c.motion, c.group, c.index, p))]

\* startMotionCommit emitting motionStart before the commit
startMotionCommit_EmitFirst(st, c, p, inst) ==
    IF ~canStart(st, c.motion, c.group, c.index)
    THEN [state |-> st, ok |-> FALSE, stopped |-> inst,
          log |-> <<"motionStart", "startRejected">>
                      \o (IF inst THEN <<"stop", "destroy">> ELSE <<>>)]
    ELSE [state |-> start(st, c.motion, c.group, c.index, p), ok |-> TRUE, stopped |-> FALSE,
          log |-> <<"motionStart", "start", "motionActive", "_startMotion">>]


\* startMotionCommit with a start() that takes any motion, undefined too
startMotionCommit_AnyMotion(st, c, p, inst) ==
    IF st.reserved # <<c.group, c.index>>
    THEN [state |-> st, ok |-> FALSE, stopped |-> inst,
          log |-> <<"startRejected">> \o (IF inst THEN <<"stop", "destroy">> ELSE <<>>)]
    ELSE [state |-> [st EXCEPT !.current = <<c.group, c.index>>, !.currentPriority = p,
                               !.reserved = NoSlot, !.reservedPriority = NONE],
          ok |-> TRUE, stopped |-> FALSE,
          log |-> <<"start">> \o afterStart([st EXCEPT !.currentPriority = p])]

\* startMotion after its awaits: the commit and what follows it. inst: a
\* sound instance was started for this call
startMotionCommit(st, c, p, inst) ==
    IF ~canStart(st, c.motion, c.group, c.index)
    THEN [state |-> st, ok |-> FALSE, stopped |-> inst,
          log |-> <<"startRejected">> \o (IF inst THEN <<"stop", "destroy">> ELSE <<>>)]
    ELSE [state |-> start(st, c.motion, c.group, c.index, p), ok |-> TRUE, stopped |-> FALSE,
          log |-> <<"start">> \o afterStart(start(st, c.motion, c.group, c.index, p))]

\* availableIndices without the isActive filter
availableIndices_IgnoreActive(st, g) ==
    {i \in 0 .. (DefLen(g) - 1) : slot[<<g, i>>] # "failed"}

\* the indices startRandomMotion chooses among
availableIndices(st, g) ==
    {i \in 0 .. (DefLen(g) - 1) : slot[<<g, i>>] # "failed" /\ ~isActive(st, g, i)}

\* the analyser's time-domain buffers, amplitudes in tenths
PcmBuffers == [1 .. PcmLen -> (0 - MaxAmp) .. MaxAmp]

SumSquares(pcm) ==
    LET RECURSIVE Sum(_)
        Sum(n) == IF n = 0 THEN 0 ELSE pcm[n] * pcm[n] + Sum(n - 1)
    IN Sum(PcmLen)

\* mouthSync reading the buffer whether or not an analyser is attached
mouthSync_AlwaysReads(an, pcm) ==
    CHOOSE r \in 0 .. (5 * MaxAmp) :
        /\ r > 0 => (2 * r - 1) * (2 * r - 1) * PcmLen <= 80 * SumSquares(pcm)
        /\ 80 * SumSquares(pcm) < (2 * r + 1) * (2 * r + 1) * PcmLen

\* mouthSync(), in tenths: 0 without an analyser, else the square root of
\* 20 times the mean square of the buffer, rounded to one decimal
mouthSync(an, pcm) ==
    IF ~an THEN 0
    ELSE CHOOSE r \in 0 .. (5 * MaxAmp) :
            /\ r > 0 => (2 * r - 1) * (2 * r - 1) * PcmLen <= 80 * SumSquares(pcm)
            /\ 80 * SumSquares(pcm) < (2 * r + 1) * (2 * r + 1) * PcmLen

(* ------------------------------ actions ------------------------------ *)

\* the sound arguments callers pass: with audio disabled startMotion never
\* reads its sound argument, so only its absence is enumerated
SoundArgs == IF cfgSound THEN BOOLEAN ELSE {FALSE}

\* the fields as their initialisers leave them
Fresh ==
    /\ sounds = {}
    /\ state = IdleState
    /\ motionActive = FALSE
    /\ playingSound = FALSE
    /\ currentSound = "none"
    /\ analyser = FALSE
    /\ finished = TRUE
    /\ calls = <<>>
    /\ playing = [motion |-> 0, rejected |-> 0, user |-> 0]
    /\ userOpts = <<>>
    /\ requested = {}
    /\ destroyed = FALSE
    /\ lip = [pcm |-> [k \in 1 .. PcmLen |-> 0], value |-> 0]
    /\ runtimes = <<>>
    /\ registered = <<>>
    /\ model = NoModel
    /\ refs = {}
    /\ loads = [a \in Assets |-> "idle"]
    /\ modelData = [a \in Assets |-> "none"]
    /\ parse = "idle"
    /\ bitmap = TRUE
    /\ parses = <<>>
    /\ timer = [deltaTime |-> 0, elapsedTime |-> 0, wasUpdated |-> FALSE,
                dts |-> <<>>, advanced |-> <<>>]
    /\ interaction = [status |-> "new", followMouse |-> FALSE, touchEvents |-> FALSE,
                      pointermove |-> 0, pointertap |-> 0]
    /\ ret = "none"
    /\ log = <<>>

\* a constructed manager: either no motion was filled in and audio is
\* disabled, or every motion was filled in and audio is enabled
Init ==
    /\ Fresh
    /\ \/ slot = [s \in Slots |-> "unloaded"] /\ cfgSound = FALSE
       \/ slot = [s \in Slots |-> "loaded"] /\ cfgSound = TRUE
    /\ exprMgr = TRUE
    /\ phase = "ready"
    /\ preload = "NONE"
    /\ op = "init"

\* options.motionPreload as callers give it
PreloadOptions == {"NONE", "ALL", "IDLE", "absent"}

\* the groups setupMotions preloads
preloadGroups(pl) ==
    IF pl = "NONE" THEN {}
    ELSE IF pl = "ALL" THEN DefGroups
    ELSE {IdleGroup}

\* init(): setupMotions gives every group an empty array and calls
\* loadMotion for the slots of the preload groups, which loads nothing;
\* then stopAllMotions
Construct ==
    /\ op' = "construct"
    /\ phase = "new"
    /\ phase' = "constructed"
    /\ slot' = [s \in Slots |-> "unloaded"]
    /\ requested' = {s \in Slots : s[1] \in preloadGroups(preload)}
    /\ finished' = TRUE
    /\ state' = reset(state)
    /\ analyser' = FALSE
    /\ ret' = "none"
    /\ log' = <<"setupMotions", "_stopAllMotions", "reset", "stopSpeaking">>
    /\ UNCHANGED <<sounds, cfgSound, motionActive, playingSound, currentSound, calls,
                   playing, userOpts, exprMgr, preload, destroyed, apart>>

\* the Live2DModel constructor, after the manager is built: every motion of
\* modelData.motions (its groups: groups) is created and stored in its slot,
\* and the sounds of modelData.sounds (snds) are registered
FillMotions(groups, snds) ==
    /\ op' = "fillMotions"
    /\ phase = "constructed"
    /\ phase' = "ready"
    /\ snds \subseteq {s \in SoundSlots : s[1] \in groups}
    /\ slot' = [s \in Slots |-> IF s[1] \in groups THEN "loaded" ELSE slot[s]]
    /\ sounds' = sounds \cup snds
    /\ ret' = "none"
    /\ log' = <<>>
    /\ UNCHANGED <<cfgSound, state, motionActive, playingSound, currentSound, analyser,
                   finished, calls, playing, userOpts, exprMgr, preload, requested,
                   destroyed, apart>>

\* a startMotion call enters: st is the MotionState it finds, pre what the
\* operation it runs in did before
Enter(pre, st, g, i, p, snd) ==
    LET r == startMotionBegin(st, g, i, p, snd) IN
    /\ Len(r.call) = 0 \/ Len(calls) < MaxCalls
    /\ state' = r.state
    /\ calls' = calls \o r.call
    /\ ret' = r.res
    /\ log' = pre \o r.log

StartMotion(g, i, p, snd) ==
    /\ op' = "startMotion"
    /\ ~destroyed
    /\ Enter(<<>>, state, g, i, p, snd)
    /\ UNCHANGED <<slot, sounds, cfgSound, motionActive, playingSound, currentSound,
                   analyser, finished, playing>>
    /\ UNCHANGED <<userOpts, setup>>

\* startRandomMotion, finding the MotionState st
Random(pre, st, g, p, snd) ==
    IF availableIndices(st, g) # {}
    THEN \E i \in availableIndices(st, g) : Enter(pre, st, g, i, p, snd)
    ELSE /\ state' = st
         /\ calls' = calls
         /\ ret' = "false"
         /\ log' = pre

StartRandomMotion(g, p, snd) ==
    /\ op' = "startRandomMotion"
    /\ ~destroyed
    /\ Random(<<>>, state, g, p, snd)
    /\ UNCHANGED <<slot, sounds, cfgSound, motionActive, playingSound, currentSound,
                   analyser, finished, playing>>
    /\ UNCHANGED <<userOpts, setup>>

\* the commit of call k with priority p; inst: it started a sound instance
Commit(k, p, inst) ==
    LET c == calls[k]
        r == startMotionCommit(state, c, p, inst)
    IN
    /\ state' = r.state
    /\ calls' = Remove(calls, k)
    /\ log' = r.log
    /\ playing' = IF ~inst THEN playing
                  ELSE IF r.ok THEN [playing EXCEPT !.motion = @ + 1]
                  ELSE IF r.stopped THEN playing
                  ELSE [playing EXCEPT !.rejected = @ + 1]
    /\ IF r.ok
       THEN /\ motionActive' = TRUE
            /\ finished' = FALSE
            /\ ret' = "true"
       ELSE /\ UNCHANGED <<motionActive, finished>>
            /\ ret' = "false"

\* the options of speak(): options.expression absent, an index or a name,
\* and whether the caller gave options.complete
NoExpression == [kind |-> "none", num |-> 0, name |-> "", complete |-> FALSE]
ExprOptions ==
    {NoExpression,
     [kind |-> "index", num |-> 0, name |-> "", complete |-> FALSE],
     [kind |-> "index", num |-> 1, name |-> "", complete |-> FALSE],
     [kind |-> "name", num |-> 0, name |-> "smile", complete |-> FALSE]}

\* options with and without a complete callback of the caller
CompleteOptions ==
    {NoExpression,
     [NoExpression EXCEPT !.complete = TRUE],
     [kind |-> "name", num |-> 0, name |-> "smile", complete |-> TRUE]}

\* the value of options.expression && ...: 0 and "" count as false
Truthy(e) ==
    \/ e.kind = "index" /\ e.num # 0
    \/ e.kind = "name" /\ e.name # ""

\* speak(): the flags it sets before sound.play
SpeakFlags(who) ==
    /\ currentSound' = who
    /\ analyser' = TRUE
    /\ playingSound' = TRUE

\* speak(): its calls of the expression manager and of sound.play, in order
speakLog(st, e) ==
    (IF shouldOverrideExpression(st) /\ exprMgr THEN <<"resetExpression">> ELSE <<>>)
        \o (IF Truthy(e) /\ exprMgr THEN <<"setExpression">> ELSE <<>>)
        \o <<"play">>

\* SoundFor preferring the registered sound
SoundFor_RegisteredFirst(c) ==
    IF ~cfgSound THEN "none"
    ELSE IF <<c.group, c.index>> \in sounds THEN "registered"
    ELSE IF c.sound THEN "argument"
    ELSE "none"

\* the sound startMotion plays for call c, if any
SoundFor(c) ==
    IF ~cfgSound THEN "none"
    ELSE IF c.sound THEN "argument"
    ELSE IF <<c.group, c.index>> \in sounds THEN "registered"
    ELSE "none"

\* await loadMotion resumes, in the order the calls suspended
ResumeLoad(k) ==
    /\ op' = "resumeLoad"
    /\ k \in DOMAIN calls
    /\ calls[k].pc = "load"
    /\ \A j \in 1 .. (k - 1) : calls[j].pc # "load"
    /\ IF SoundFor(calls[k]) # "none"
       THEN /\ PlayingTotal + Cardinality({j \in DOMAIN calls : calls[j].pc = "speak"})
                   < MaxSounds
            /\ SpeakFlags("motion")
            /\ calls' = [calls EXCEPT ![k].pc = "speak"]
            /\ ret' = "pending"
            /\ log' = <<IF SoundFor(calls[k]) = "argument" THEN "speakArgument"
                                                            ELSE "speakRegistered">>
                       \o speakLog(state, NoExpression)
            /\ UNCHANGED <<state, motionActive, finished, playing>>
       ELSE /\ Commit(k, calls[k].priority, FALSE)
            /\ UNCHANGED <<playingSound, currentSound, analyser>>
    /\ UNCHANGED <<slot, sounds, cfgSound>>
    /\ UNCHANGED <<userOpts, setup>>

\* await speak resumes with the sound instance
ResumeSpeak(k) ==
    /\ op' = "resumeSpeak"
    /\ k \in DOMAIN calls
    /\ calls[k].pc = "speak"
    /\ Commit(k, FORCE, TRUE)
    /\ UNCHANGED <<slot, sounds, cfgSound, playingSound, currentSound, analyser>>
    /\ UNCHANGED <<userOpts, setup>>

\* updateFinished calling reset() where complete() belongs
updateFinished_Reset(st, active) ==
    [state |-> reset(st),
     log |-> (IF active THEN <<"motionFinish">> ELSE <<>>) \o <<"complete">>,
     idle |-> shouldRequestIdleMotion(reset(st))]

\* updateFinished without the call of complete()
updateFinished_NoComplete(st, active) ==
    [state |-> st,
     log |-> (IF active THEN <<"motionFinish">> ELSE <<>>) \o <<"complete">>,
     idle |-> shouldRequestIdleMotion(st)]


\* updateFinished emitting motionFinish whether or not a motion was active
updateFinished_AlwaysFinish(st, active) ==
    [state |-> complete(st),
     log |-> <<"motionFinish">>
                 \o (IF shouldOverrideExpression(st) /\ exprMgr
                     THEN <<"restoreExpression">> ELSE <<>>)
                 \o <<"complete">>,
     idle |-> shouldRequestIdleMotion(complete(st))]

\* update() when isFinished(): the finish notification, the expression
\* restore, complete(), and whether an idle motion is requested. active:
\* motionActive on entry
updateFinished(st, active) ==
    [state |-> complete(st),
     log |-> (IF active THEN <<"motionFinish">> ELSE <<>>)
                 \o (IF shouldOverrideExpression(st) /\ exprMgr
                     THEN <<"restoreExpression">> ELSE <<>>)
                 \o <<"complete">>,
     idle |-> shouldRequestIdleMotion(complete(st))]

Update ==
    /\ op' = "update"
    /\ IF finished
       THEN LET u == updateFinished(state, motionActive) IN
            /\ motionActive' = FALSE
            /\ IF u.idle
               THEN Random(u.log \o <<"idleRequest">>, u.state, IdleGroup, IDLE, FALSE)
               ELSE /\ state' = u.state
                    /\ ret' = "none"
                    /\ log' = u.log
                    /\ UNCHANGED <<calls>>
       ELSE /\ ret' = "none"
            /\ log' = <<>>
            /\ UNCHANGED <<state, motionActive, calls>>
    /\ UNCHANGED <<slot, sounds, cfgSound, playingSound, currentSound, analyser,
                   finished, playing>>
    /\ UNCHANGED <<userOpts, setup>>

\* stopSpeaking making the sound stop as well
StopSpeaking_StopsSound ==
    /\ op' = "stopSpeaking"
    /\ analyser' = FALSE
    /\ playingSound' = FALSE
    /\ currentSound' = "none"
    /\ ret' = "none"
    /\ log' = <<"stopSpeaking">>
    /\ UNCHANGED <<slot, sounds, cfgSound, state, motionActive, finished, calls,
                   playing, userOpts, setup>>

\* stopSpeaking(): the analyser is dropped
StopSpeaking ==
    /\ op' = "stopSpeaking"
    /\ analyser' = FALSE
    /\ ret' = "none"
    /\ log' = <<"stopSpeaking">>
    /\ UNCHANGED <<slot, sounds, cfgSound, state, motionActive, playingSound,
                   currentSound, finished, calls, playing, userOpts, setup>>

\* stopAllMotions without the reset of MotionState
StopAllMotions_NoReset ==
    /\ op' = "stopAllMotions"
    /\ finished' = TRUE
    /\ analyser' = FALSE
    /\ ret' = "none"
    /\ log' = <<"_stopAllMotions", "stopSpeaking">>
    /\ UNCHANGED <<slot, sounds, cfgSound, state, motionActive, playingSound,
                   currentSound, calls, playing, userOpts, setup>>

\* stopAllMotions(): the runtime stop, the reset of MotionState, stopSpeaking
StopAllMotions ==
    /\ op' = "stopAllMotions"
    /\ finished' = TRUE
    /\ state' = reset(state)
    /\ analyser' = FALSE
    /\ ret' = "none"
    /\ log' = <<"_stopAllMotions", "reset", "stopSpeaking">>
    /\ UNCHANGED <<slot, sounds, cfgSound, motionActive, playingSound, currentSound,
                   calls, playing, userOpts, setup>>

\* speak(sound, options) called directly, with audio enabled; e is
\* options.expression
Speak(e) ==
    /\ op' = "speak"
    /\ cfgSound
    /\ PlayingTotal + Cardinality({j \in DOMAIN calls : calls[j].pc = "speak"}) < MaxSounds
    /\ SpeakFlags("user")
    /\ playing' = [playing EXCEPT !.user = @ + 1]
    /\ userOpts' = Append(userOpts, e)
    /\ ret' = "none"
    /\ log' = speakLog(state, e)
    /\ UNCHANGED <<slot, sounds, cfgSound, state, motionActive, finished, calls, setup>>

\* the complete callback speak installed: the flags are cleared and the
\* expression is reset when options.expression was given
completeFlags ==
    /\ playingSound' = FALSE
    /\ currentSound' = "none"
    /\ analyser' = FALSE

\* SoundCompleteUser with a wrapper that drops the caller's callback
SoundCompleteUser_NoCallback(j) ==
    /\ op' = "soundComplete"
    /\ j \in DOMAIN userOpts
    /\ playing' = [playing EXCEPT !.user = @ - 1]
    /\ userOpts' = Remove(userOpts, j)
    /\ completeFlags
    /\ ret' = "none"
    /\ log' = <<"soundComplete">>
                \o (IF Truthy(userOpts[j]) /\ exprMgr THEN <<"resetExpression">>
                                                       ELSE <<>>)
    /\ UNCHANGED <<slot, sounds, cfgSound, state, motionActive, finished, calls, setup>>

\* a playing sound started by speak() ends: its complete callback runs,
\* the caller's own callback first when one was given
SoundCompleteUser(j) ==
    /\ op' = "soundComplete"
    /\ j \in DOMAIN userOpts
    /\ playing' = [playing EXCEPT !.user = @ - 1]
    /\ userOpts' = Remove(userOpts, j)
    /\ completeFlags
    /\ ret' = "none"
    /\ log' = <<"soundComplete">>
                \o (IF userOpts[j].complete THEN <<"passedComplete">> ELSE <<>>)
                \o (IF Truthy(userOpts[j]) /\ exprMgr THEN <<"resetExpression">>
                                                       ELSE <<>>)
    /\ UNCHANGED <<slot, sounds, cfgSound, state, motionActive, finished, calls, setup>>

\* a playing sound started by startMotion ends: its complete callback runs
SoundComplete(who) ==
    /\ op' = "soundComplete"
    /\ who # "user"
    /\ playing[who] > 0
    /\ playing' = [playing EXCEPT ![who] = @ - 1]
    /\ completeFlags
    /\ ret' = "none"
    /\ log' = <<"soundComplete">>
    /\ UNCHANGED <<slot, sounds, cfgSound, state, motionActive, finished, calls,
                   userOpts, setup>>

\* the runtime plays the started motion to its end
MotionEnds ==
    /\ op' = "motionEnds"
    /\ ~finished
    /\ finished' = TRUE
    /\ ret' = "none"
    /\ log' = <<>>
    /\ UNCHANGED <<slot, sounds, cfgSound, state, motionActive, playingSound,
                   currentSound, analyser, calls, playing, userOpts, setup>>

RegisterSound(s) ==
    /\ op' = "registerSound"
    /\ ~destroyed
    /\ s \notin sounds
    /\ sounds' = sounds \cup {s}
    /\ ret' = "none"
    /\ log' = <<>>
    /\ UNCHANGED <<slot, cfgSound, state, motionActive, playingSound, currentSound,
                   analyser, finished, calls, playing, userOpts, setup>>

\* a load of an unloaded slot fails: the slot is marked failed (null)
MarkFailed(s) ==
    /\ op' = "markFailed"
    /\ slot[s] = "unloaded"
    /\ slot' = [slot EXCEPT ![s] = "failed"]
    /\ ret' = "none"
    /\ log' = <<>>
    /\ UNCHANGED <<sounds, cfgSound, state, motionActive, playingSound, currentSound,
                   analyser, finished, calls, playing, userOpts, setup>>

Next ==
    \/ \E s \in ReqSlots, p \in Priorities, snd \in SoundArgs : StartMotion(s[1], s[2], p, snd)
    \/ \E g \in ReqGroups, p \in Priorities, snd \in SoundArgs : StartRandomMotion(g, p, snd)
    \/ \E k \in 1 .. MaxCalls : ResumeLoad(k)
    \/ \E k \in 1 .. MaxCalls : ResumeSpeak(k)
    \/ Update
    \/ StopAllMotions
    \/ Speak(NoExpression)
    \/ \E j \in 1 .. MaxSounds : SoundCompleteUser(j)
    \/ \E who \in {"motion", "rejected"} : SoundComplete(who)
    \/ MotionEnds
    \/ \E s \in SoundSlots : RegisterSound(s)
    \/ \E s \in Slots : MarkFailed(s)

Spec == Init /\ [][Next]_vars

(* --------------------------- construction ---------------------------- *)

\* a manager about to be constructed, with audio disabled
InitSetup ==
    /\ Fresh
    /\ slot = [s \in Slots |-> "unloaded"]
    /\ cfgSound = FALSE
    /\ exprMgr = TRUE
    /\ phase = "new"
    /\ preload \in PreloadOptions
    /\ op = "init"

NextSetup ==
    \/ Construct
    \/ \E groups \in SUBSET DefGroups, snds \in SUBSET SoundSlots : FillMotions(groups, snds)
    \/ phase = "ready" /\ \E g \in ReqGroups, p \in Priorities : StartRandomMotion(g, p, FALSE)
    \/ phase = "ready" /\ \E k \in 1 .. MaxCalls : ResumeLoad(k)
    \/ phase = "ready" /\ Update
    \/ phase = "ready" /\ MotionEnds

SpecSetup == InitSetup /\ [][NextSetup]_vars

(* ------------------------- speak and expressions ---------------------- *)

\* a constructed manager with every motion loaded and audio enabled, with
\* or without an expression manager
InitSpeak ==
    /\ Fresh
    /\ slot = [s \in Slots |-> "loaded"]
    /\ cfgSound = TRUE
    /\ exprMgr \in BOOLEAN
    /\ phase = "ready"
    /\ preload = "NONE"
    /\ op = "init"

NextSpeak ==
    \/ \E e \in ExprOptions : Speak(e)
    \/ \E j \in 1 .. MaxSounds : SoundCompleteUser(j)
    \/ StopSpeaking
    \/ \E s \in Slots, p \in Priorities : StartMotion(s[1], s[2], p, FALSE)
    \/ \E k \in 1 .. MaxCalls : ResumeLoad(k)
    \/ MotionEnds
    \/ Update

SpecSpeak == InitSpeak /\ [][NextSpeak]_vars

(* ------------------------- lip sync and destroy ----------------------- *)

\* mouthSync() is called with pcm in the analyser's buffer
MouthSync(pcm) ==
    /\ op' = "mouthSync"
    /\ lip' = [pcm |-> pcm, value |-> mouthSync(analyser, pcm)]
    /\ ret' = "none"
    /\ log' = <<>>
    /\ UNCHANGED <<rest, manager, registry, loader>>

\* destroy() leaving the registered sounds in their table
Destroy_KeepSounds ==
    /\ op' = "destroy"
    /\ destroyed' = TRUE
    /\ finished' = TRUE
    /\ state' = reset(state)
    /\ analyser' = FALSE
    /\ ret' = "none"
    /\ log' = <<"emitDestroy", "stopSpeaking", "_stopAllMotions", "reset", "stopSpeaking">>
                \o (IF exprMgr THEN <<"expressionManager.destroy">> ELSE <<>>)
                \o <<"dropDefinitions">>
    /\ UNCHANGED <<slot, sounds, cfgSound, motionActive, playingSound, currentSound, calls,
                   playing, userOpts, exprMgr, phase, preload, requested, apart>>

\* destroy(): the flag, the destroy event, stopSpeaking, stopAllMotions, the
\* registered sounds dropped group by group, the expression manager
\* destroyed, definitions and motionGroups set to undefined. Nothing in it
\* looks at the flag first
Destroy ==
    /\ op' = "destroy"
    /\ destroyed' = TRUE
    /\ finished' = TRUE
    /\ state' = reset(state)
    /\ analyser' = FALSE
    /\ sounds' = {}
    /\ ret' = "none"
    /\ log' = <<"emitDestroy", "stopSpeaking", "_stopAllMotions", "reset", "stopSpeaking">>
                \o (IF sounds # {} THEN <<"releaseSounds">> ELSE <<>>)
                \o (IF exprMgr THEN <<"expressionManager.destroy">> ELSE <<>>)
                \o <<"dropDefinitions">>
    /\ UNCHANGED <<slot, cfgSound, motionActive, playingSound, currentSound, calls,
                   playing, userOpts, exprMgr, phase, preload, requested, apart>>

\* startMotion on a destroyed manager: the audio guard and the reservation
\* come first and return false; past them the read of definitions[group]
\* throws, and the reservation stays
StartMotionDestroyed(g, i, p) ==
    /\ op' = "startMotion"
    /\ destroyed
    /\ IF playingSound \/ ~canReserve(state, g, i, p)
       THEN /\ state' = state
            /\ ret' = "false"
            /\ log' = <<>>
       ELSE /\ state' = reserve(state, g, i, p)
            /\ ret' = "error"
            /\ log' = <<"reserve", "TypeError">>
    /\ UNCHANGED <<slot, sounds, cfgSound, motionActive, playingSound, currentSound,
                   analyser, finished, calls, playing, userOpts, setup>>

\* startRandomMotion on a destroyed manager: its first statement reads
\* definitions[group] and throws
StartRandomMotionDestroyed(g, p) ==
    /\ op' = "startRandomMotion"
    /\ destroyed
    /\ ret' = "error"
    /\ log' = <<"TypeError">>
    /\ UNCHANGED <<slot, sounds, cfgSound, state, motionActive, playingSound,
                   currentSound, analyser, finished, calls, playing, userOpts, setup>>

\* loadMotion on a destroyed manager: its first statement reads
\* definitions[group] and throws
LoadMotionDestroyed(g, i) ==
    /\ op' = "loadMotion"
    /\ destroyed
    /\ ret' = "error"
    /\ log' = <<"TypeError">>
    /\ UNCHANGED <<slot, sounds, cfgSound, state, motionActive, playingSound,
                   currentSound, analyser, finished, calls, playing, userOpts, setup>>

\* speak, the stops, destroy and mouthSync on a manager with audio enabled
NextLipSync ==
    \/ ~destroyed /\ Speak(NoExpression)
    \/ \E j \in 1 .. MaxSounds : SoundCompleteUser(j)
    \/ StopSpeaking
    \/ StopAllMotions
    \/ Destroy
    \/ \E pcm \in PcmBuffers : MouthSync(pcm)

SpecLipSync == InitSpeak /\ [][NextLipSync]_vars

\* a manager in use, destroyed at any moment and used afterwards
NextDestroy ==
    \/ \E s \in Slots, p \in Priorities : StartMotion(s[1], s[2], p, FALSE)
    \/ \E k \in 1 .. MaxCalls : ResumeLoad(k)
    \/ \E k \in 1 .. MaxCalls : ResumeSpeak(k)
    \/ ~destroyed /\ Speak(NoExpression)
    \/ \E j \in 1 .. MaxSounds : SoundCompleteUser(j)
    \/ \E who \in {"motion", "rejected"} : SoundComplete(who)
    \/ \E s \in SoundSlots : RegisterSound(s)
    \/ MotionEnds
    \/ ~destroyed /\ Update
    \/ Destroy
    \/ \E s \in Slots, p \in Priorities : StartMotionDestroyed(s[1], s[2], p)
    \/ \E g \in DefGroups, p \in Priorities : StartRandomMotionDestroyed(g, p)
    \/ \E s \in Slots : LoadMotionDestroyed(s[1], s[2])

SpecDestroy == InitSpeak /\ [][NextDestroy]_vars

(* ------------------- runtime registry and construction ---------------- *)

\* a put into seq, sorted by descending version, behind the elements of its
\* own version
InsertByVersion(seq, a) ==
    LET k == Cardinality({j \in DOMAIN seq : seq[j].version >= a.version}) IN
    [j \in 1 .. (Len(seq) + 1) |->
        IF j <= k THEN seq[j] ELSE IF j = k + 1 THEN a ELSE seq[j - 1]]

\* runtimes.sort((a, b) => b.version - a.version): descending by version,
\* elements of one version in the order they had
sortDescending(seq) ==
    LET RECURSIVE Sorted(_)
        Sorted(n) == IF n = 0 THEN <<>> ELSE InsertByVersion(Sorted(n - 1), seq[n])
    IN Sorted(Len(seq))

\* registerRuntime without the sort
registerRuntime_NoSort(rs, a) == Append(rs, a)

\* registerRuntime(runtime): push, then sort
registerRuntime(rs, a) == sortDescending(Append(rs, a))

\* findRuntime returning the last adapter that accepts
findRuntime_LastMatch(rs, src) ==
    LET acc == {j \in DOMAIN rs : src \in rs[j].accepts} IN
    IF acc = {} THEN NoRuntime
    ELSE rs[CHOOSE j \in acc : \A k \in acc : k <= j]

\* findRuntime(source): the first adapter of runtimes whose test accepts
findRuntime(rs, src) ==
    LET acc == {j \in DOMAIN rs : src \in rs[j].accepts} IN
    IF acc = {} THEN NoRuntime
    ELSE rs[CHOOSE j \in acc : \A k \in acc : j <= k]

RegisterRuntime(a) ==
    /\ op' = "registerRuntime"
    /\ Len(registered) < MaxRuntimes
    /\ runtimes' = registerRuntime(runtimes, a)
    /\ registered' = Append(registered, a)
    /\ ret' = "none"
    /\ log' = <<>>
    /\ UNCHANGED <<rest, manager, lip, model, loader>>

\* the constructor going on without a runtime
NewModel_NoThrow(src) ==
    /\ op' = "newModel"
    /\ model.status # "pending"
    /\ model' = [status |-> "pending", source |-> src,
                 runtime |-> findRuntime(runtimes, src).id, parts |-> {}]
    /\ ret' = "none"
    /\ log' = <<"findRuntime", "ready">>
    /\ UNCHANGED <<rest, manager, lip, runtimes, registered, loader>>

\* new Live2DModel(modelData, options) up to the end of the constructor:
\* findRuntime on the settings, a throw when there is none, else the
\* callback on runtime.ready() is installed
NewModel(src) ==
    /\ op' = "newModel"
    /\ model.status # "pending"
    /\ IF findRuntime(runtimes, src) = NoRuntime
       THEN /\ model' = [status |-> "thrown", source |-> src, runtime |-> NoRuntime.id,
                         parts |-> {}]
            /\ ret' = "error"
            /\ log' = <<"findRuntime", "throw">>
       ELSE /\ model' = [status |-> "pending", source |-> src,
                         runtime |-> findRuntime(runtimes, src).id, parts |-> {}]
            /\ ret' = "none"
            /\ log' = <<"findRuntime", "ready">>
    /\ UNCHANGED <<rest, manager, lip, runtimes, registered, loader>>

\* the callback on runtime.ready(): the internal model with its motion
\* manager, the ticker registration when autoUpdate is on, the textures
ModelReady(autoUpdate) ==
    /\ op' = "modelReady"
    /\ model.status = "pending"
    /\ model' = [model EXCEPT !.status = "ready",
                              !.parts = IF autoUpdate THEN Parts ELSE Parts \ {"ticker"}]
    /\ ret' = "none"
    /\ log' = <<>>
    /\ UNCHANGED <<rest, manager, lip, runtimes, registered, loader>>

\* nothing registered, no model constructed
InitRuntime ==
    /\ Fresh
    /\ slot = [s \in Slots |-> "unloaded"]
    /\ cfgSound = FALSE
    /\ exprMgr = TRUE
    /\ phase = "new"
    /\ preload = "NONE"
    /\ op = "init"

NextRuntime ==
    \/ \E a \in Adapters : RegisterRuntime(a)
    \/ \E src \in Sources : NewModel(src)
    \/ \E autoUpdate \in BOOLEAN : ModelReady(autoUpdate)

SpecRuntime == InitRuntime /\ [][NextRuntime]_vars

(* ------------------------------- loader ------------------------------- *)

\* the settle of Promise.all taken at the first load that resolves
settle_FirstResolved(ls, rs) ==
    IF \E a \in rs : ls[a] = "rejected" THEN "rejected"
    ELSE IF \E a \in rs : ls[a] = "resolved" THEN "resolved"
    ELSE "pending"

\* await Promise.all(promises): rejected once a load is rejected, resolved
\* once every load is resolved and stored
settle(ls, rs) ==
    IF \E a \in rs : ls[a] = "rejected" THEN "rejected"
    ELSE IF \A a \in rs : ls[a] = "resolved" THEN "resolved"
    ELSE "pending"

\* parse() up to its await: modelData is created and a load is started for
\* every asset the settings refer to
StartParse(rs) ==
    /\ op' = "parse"
    /\ parse = "idle"
    /\ Required \subseteq rs
    /\ "sound" \in rs => "motion" \in rs
    /\ refs' = rs
    /\ loads' = [a \in Assets |-> IF a \in rs THEN "pending" ELSE "idle"]
    /\ modelData' = [a \in Assets |-> "none"]
    /\ parse' = "pending"
    /\ ret' = "pending"
    /\ log' = <<>>
    /\ UNCHANGED <<rest, manager, lip, registry>>

\* cubism2Load.parse: a motion of the settings may name a sound
Parse2(rs) == StartParse(rs)

\* cubism4Load.parse: the settings name no sounds
Parse4(rs) ==
    /\ "sound" \notin rs
    /\ StartParse(rs)

\* loader.load of asset a resolves and its then-callback stores the result
\* at the asset's key and index of modelData
LoadResolves(a) ==
    /\ op' = "loadResolves"
    /\ loads[a] = "pending"
    /\ loads' = [loads EXCEPT ![a] = "resolved"]
    /\ modelData' = [modelData EXCEPT ![a] = a]
    /\ ret' = "none"
    /\ log' = <<>>
    /\ UNCHANGED <<rest, manager, lip, registry, refs, parse>>

\* loader.load of asset a fails
LoadRejects(a) ==
    /\ op' = "loadRejects"
    /\ loads[a] = "pending"
    /\ loads' = [loads EXCEPT ![a] = "rejected"]
    /\ ret' = "none"
    /\ log' = <<>>
    /\ UNCHANGED <<rest, manager, lip, registry, refs, modelData, parse>>

\* parse() resumes from its await: it returns modelData or rejects
ParseSettles ==
    /\ op' = "parseSettles"
    /\ parse = "pending"
    /\ settle(loads, refs) # "pending"
    /\ parse' = settle(loads, refs)
    /\ ret' = IF settle(loads, refs) = "resolved" THEN "true" ELSE "error"
    /\ log' = <<>>
    /\ UNCHANGED <<rest, manager, lip, registry, refs, loads, modelData>>

NextLoader ==
    \/ \E rs \in SUBSET Assets : Parse2(rs)
    \/ \E rs \in SUBSET Assets : Parse4(rs)
    \/ \E a \in Assets : LoadResolves(a)
    \/ \E a \in Assets : LoadRejects(a)
    \/ ParseSettles

SpecLoader == InitRuntime /\ [][NextLoader]_vars

(* ------------------------- sounds of motions -------------------------- *)

\* motions started with and without a sound, interrupted by stopAllMotions;
\* an await resumes in the end and a playing sound ends in the end
NextSound ==
    \/ \E s \in Slots, p \in Priorities, snd \in BOOLEAN : StartMotion(s[1], s[2], p, snd)
    \/ \E k \in 1 .. MaxCalls : ResumeLoad(k)
    \/ \E k \in 1 .. MaxCalls : ResumeSpeak(k)
    \/ \E who \in {"motion", "rejected"} : SoundComplete(who)
    \/ StopAllMotions
    \/ MotionEnds
    \/ Update

SpecSound ==
    /\ InitSpeak
    /\ [][NextSound]_vars
    /\ WF_vars(\E k \in 1 .. MaxCalls : ResumeLoad(k))
    /\ WF_vars(\E k \in 1 .. MaxCalls : ResumeSpeak(k))
    /\ WF_vars(\E who \in {"motion", "rejected"} : SoundComplete(who))


(* ----------------------- the complete callback ----------------------- *)

NextComplete ==
    \/ \E e \in CompleteOptions : Speak(e)
    \/ \E j \in 1 .. MaxSounds : SoundCompleteUser(j)
    \/ \E s \in Slots, p \in Priorities : StartMotion(s[1], s[2], p, FALSE)
    \/ \E k \in 1 .. MaxCalls : ResumeLoad(k)
    \/ MotionEnds

SpecComplete == InitSpeak /\ [][NextComplete]_vars


(* ---------------- the texture loader's global preference -------------- *)

\* the application sets loadTextures.config.preferCreateImageBitmap before
\* it loads a model
SetPreference(v) ==
    /\ op' = "setPreference"
    /\ parses = <<>>
    /\ bitmap # v
    /\ bitmap' = v
    /\ ret' = "none"
    /\ log' = <<>>
    /\ UNCHANGED <<manager, lip, registry, loader, parses, timer, interaction>>

\* cubism2Load.parse() begins: it saves the preference and sets it to false
\* before its first await
Parse2Begins ==
    /\ op' = "parse2"
    /\ Len(parses) < MaxParses
    /\ parses' = Append(parses, [status |-> "pending", saved |-> bitmap])
    /\ bitmap' = FALSE
    /\ ret' = "pending"
    /\ log' = <<>>
    /\ UNCHANGED <<manager, lip, registry, loader, timer, interaction>>

\* every load of parse() k resolved: Promise.all resolves, and the call
\* writes the value it saved back and returns modelData
Parse2Resolves(k) ==
    /\ op' = "parse2Resolves"
    /\ k \in DOMAIN parses
    /\ parses[k].status = "pending"
    /\ parses' = [parses EXCEPT ![k].status = "resolved"]
    /\ bitmap' = parses[k].saved
    /\ ret' = "none"
    /\ log' = <<>>
    /\ UNCHANGED <<manager, lip, registry, loader, timer, interaction>>

\* a load of parse() k rejected: await Promise.all throws, and the call
\* rejects without reaching the statement after it
Parse2Rejects(k) ==
    /\ op' = "parse2Rejects"
    /\ k \in DOMAIN parses
    /\ parses[k].status = "pending"
    /\ parses' = [parses EXCEPT ![k].status = "rejected"]
    /\ ret' = "error"
    /\ log' = <<>>
    /\ UNCHANGED <<manager, lip, registry, loader, bitmap, timer, interaction>>

NextBitmap ==
    \/ \E v \in BOOLEAN : SetPreference(v)
    \/ Parse2Begins
    \/ \E k \in 1 .. MaxParses : Parse2Resolves(k)
    \/ \E k \in 1 .. MaxParses : Parse2Rejects(k)

SpecBitmap == InitRuntime /\ [][NextBitmap]_vars

(* ------------------ Live2DModel: timer and interaction ---------------- *)

Dts == 0 .. MaxDt

RECURSIVE SumSeq(_)
SumSeq(seq) == IF seq = <<>> THEN 0 ELSE Head(seq) + SumSeq(Tail(seq))

\* the followMouse setter: on() adds the pointermove handler, off() removes
\* it; nothing is done when the flag already has the value
setFollowMouse(ia, follow) ==
    IF ia.followMouse = follow THEN ia
    ELSE [ia EXCEPT !.followMouse = follow,
                    !.pointermove = IF follow THEN @ + 1 ELSE 0]

\* the touchEvents setter: on() adds the pointertap handler, off() removes it
setTouchEvents(ia, touchable) ==
    IF ia.touchEvents = touchable THEN ia
    ELSE [ia EXCEPT !.touchEvents = touchable,
                    !.pointertap = IF touchable THEN @ + 1 ELSE 0]

\* new Live2DModel(modelData, options), up to the end of its ready()
\* callback: elapsedTime starts at performance.now(), and the setters are
\* called with the options, which default to true
NewLive2DModel(now, follow, touch) ==
    /\ op' = "Live2DModel"
    /\ interaction.status = "new"
    /\ timer' = [timer EXCEPT !.elapsedTime = now]
    /\ interaction' = [setTouchEvents(setFollowMouse(interaction, follow), touch)
                          EXCEPT !.status = "ready"]
    /\ ret' = "none"
    /\ log' = <<>>
    /\ UNCHANGED <<manager, lip, registry, loader, bitmap, parses>>

SetFollowMouse(follow) ==
    /\ op' = "followMouse"
    /\ interaction' = setFollowMouse(interaction, follow)
    /\ ret' = "none"
    /\ log' = <<>>
    /\ UNCHANGED <<manager, lip, registry, loader, bitmap, parses, timer>>

SetTouchEvents(touchable) ==
    /\ op' = "touchEvents"
    /\ interaction' = setTouchEvents(interaction, touchable)
    /\ ret' = "none"
    /\ log' = <<>>
    /\ UNCHANGED <<manager, lip, registry, loader, bitmap, parses, timer>>

\* Live2DModel.destroy(): removeAllListeners() drops every listener; the
\* interaction flags are not written
DestroyModel ==
    /\ op' = "destroyModel"
    /\ interaction.status = "ready"
    /\ interaction' = [interaction EXCEPT !.status = "destroyed",
                                          !.pointermove = 0, !.pointertap = 0]
    /\ ret' = "none"
    /\ log' = <<"destroy", "removeAllListeners">>
    /\ UNCHANGED <<manager, lip, registry, loader, bitmap, parses, timer>>

\* update(dt): only the timer is advanced
ModelUpdate(dt) ==
    /\ op' = "modelUpdate"
    /\ interaction.status = "ready"
    /\ timer.elapsedTime + dt <= MaxElapsed
    /\ Len(timer.dts) < MaxFrames
    /\ timer' = [timer EXCEPT !.deltaTime = @ + dt,
                              !.elapsedTime = @ + dt,
                              !.wasUpdated = TRUE,
                              !.dts = Append(@, dt),
                              !.advanced = <<>>]
    /\ ret' = "none"
    /\ log' = <<>>
    /\ UNCHANGED <<manager, lip, registry, loader, bitmap, parses, interaction>>

\* _render keeping deltaTime after internalModel.update
render_NoReset(t) ==
    IF ~t.wasUpdated THEN t
    ELSE [t EXCEPT !.dts = <<>>,
                   !.advanced = IF t.deltaTime # 0 THEN <<t.deltaTime, t.elapsedTime>>
                                                   ELSE <<>>]

\* _render: nothing before the first update(); internalModel.update with
\* deltaTime and elapsedTime when deltaTime is not 0, and deltaTime reset.
\* dts: the dt of each update() since the previous render; advanced: the
\* arguments of internalModel.update, if it was called
render(t) ==
    IF ~t.wasUpdated THEN t
    ELSE [t EXCEPT !.deltaTime = 0,
                   !.dts = <<>>,
                   !.advanced = IF t.deltaTime # 0 THEN <<t.deltaTime, t.elapsedTime>>
                                                   ELSE <<>>]

Render ==
    /\ op' = "_render"
    /\ interaction.status = "ready"
    /\ timer' = render(timer)
    /\ ret' = "none"
    /\ log' = IF timer.wasUpdated THEN <<"draw">> ELSE <<>>
    /\ UNCHANGED <<manager, lip, registry, loader, bitmap, parses, interaction>>

NextModel ==
    \/ \E now \in 0 .. 1, follow \in BOOLEAN, touch \in BOOLEAN :
         NewLive2DModel(now, follow, touch)
    \/ \E follow \in BOOLEAN : SetFollowMouse(follow)
    \/ \E touchable \in BOOLEAN : SetTouchEvents(touchable)
    \/ DestroyModel
    \/ \E dt \in Dts : ModelUpdate(dt)
    \/ Render

SpecModel == InitRuntime /\ [][NextModel]_vars

(* ------------------------------ claims ------------------------------- *)

Resumed == op \in {"resumeLoad", "resumeSpeak"}

SlotOf(c) == <<c.group, c.index>>

\* this step is the commit attempt of suspended call k: the call leaves
\* calls and the operation resolves
Commits(k) ==
    /\ op' \in {"resumeLoad", "resumeSpeak"}
    /\ ret' # "pending"
    /\ k \in DOMAIN calls
    /\ calls[k].pc = (IF op' = "resumeLoad" THEN "load" ELSE "speak")
    /\ calls' = Remove(calls, k)

\* this step suspended a new startMotion call at its first await
Entered == Len(calls') = Len(calls) + 1

NewestCall == calls'[Len(calls')]

\* C1: when a suspended startMotion resumes and its (group, index) is no
\* longer the reserved one, its commit is rejected: it resolves false,
\* MotionState is unchanged, and neither motionStart nor _startMotion is issued
C1_StaleCommitRejected ==
    [][\A k \in 1 .. MaxCalls :
         (Commits(k) /\ state.reserved # SlotOf(calls[k]))
         => /\ ret' = "false"
            /\ state' = state
            /\ ~Has(log', "motionStart")
            /\ ~Has(log', "_startMotion")
            /\ motionActive' = motionActive
            /\ finished' = finished]_vars

\* a call was rejected at its commit while the later call that superseded
\* its reservation is still suspended
C1_Witness ==
    /\ Resumed
    /\ ret = "false"
    /\ Len(calls) = 1
    /\ state.reserved = SlotOf(calls[1])
    /\ state.reservedPriority = calls[1].priority

\* a motion other than s holds the playing or the reserved place at a
\* priority of at least p
HeldAgainst(s, p) ==
    \/ state.current # NoSlot /\ state.current # s /\ p <= state.currentPriority
    \/ state.reserved # NoSlot /\ state.reserved # s /\ p <= state.reservedPriority

\* C2: a startMotion below FORCE for a slot, while another motion plays or
\* is reserved at the same or a higher priority, resolves false and leaves
\* MotionState unchanged (so the motions that were active stay active).
\* Stated on the steps: every startMotion step either resolves false with
\* MotionState and the suspended calls unchanged, or reserves for a request
\* that is at FORCE or has no such motion against it
C2_LowerOrEqualRejected ==
    [][op' = "startMotion"
         => \/ /\ ret' = "false"
               /\ state' = state
               /\ calls' = calls
            \/ /\ Has(log', "reserve")
               /\ state'.reservedPriority = FORCE
                    \/ ~HeldAgainst(state'.reserved, state'.reservedPriority)
               /\ Entered => /\ SlotOf(NewestCall) = state'.reserved
                             /\ NewestCall.priority = state'.reservedPriority]_vars

\* a startMotion was refused by the reservation while a motion is playing
C2_Witness ==
    /\ op = "startMotion"
    /\ ret = "false"
    /\ log = <<>>
    /\ ~playingSound
    /\ state.current # NoSlot
    /\ ~finished

\* C3: with no sound playing, a request for a loaded slot at FORCE, or at a
\* priority above that of the playing and of the reserved motion, is
\* accepted and takes the reservation; once a call resolves true its slot
\* is active and no other slot is
C3_HigherEvicts ==
    [][/\ ( /\ op' = "startMotion"
            /\ ret' = "false"
            /\ ~playingSound
            /\ state.current # NoSlot \/ state.reserved # NoSlot )
          => \A s \in Slots, p \in Priorities, snd \in BOOLEAN :
               ( /\ slot[s] = "loaded"
                 /\ \/ p = FORCE
                    \/ p > state.currentPriority /\ p > state.reservedPriority )
               => ~StartMotion(s[1], s[2], p, snd)
       /\ (op' = "startMotion" /\ Entered)
          => /\ ret' = "pending"
             /\ state'.reserved = SlotOf(NewestCall)
             /\ state'.reservedPriority = NewestCall.priority
       /\ \A k \in 1 .. MaxCalls :
            ( /\ Commits(k)
              /\ state.reserved = SlotOf(calls[k])
              /\ calls[k].motion = "handle" )
            => ret' = "true"
       /\ \A k \in 1 .. MaxCalls :
            (Commits(k) /\ ret' = "true")
            => /\ isActive(state', calls[k].group, calls[k].index)
               /\ state'.current = SlotOf(calls[k])
               /\ \A x \in ReqSlots \ {SlotOf(calls[k])} :
                    ~isActive(state', x[1], x[2])]_vars

\* a request was accepted over a motion that is still playing
C3_Witness ==
    /\ op = "startMotion"
    /\ ret = "pending"
    /\ ~finished
    /\ state.current # NoSlot
    /\ state.reserved \in Slots
    /\ state.reserved # state.current
    /\ slot[state.reserved] = "loaded"

\* C4: a startMotion called while playingSound is true resolves false and
\* leaves MotionState as it was, for every group, index, priority and sound
C4_AudioGuard ==
    [][(op' = "startMotion" /\ playingSound)
         => /\ ret' = "false"
            /\ state' = state
            /\ calls' = calls]_vars

\* a startMotion returned while a sound was playing
C4_Witness ==
    /\ op = "startMotion"
    /\ playingSound
    /\ ret = "false"

\* C5: a call that started a sound and whose commit is rejected stops and
\* destroys that instance and resolves false; no sound of a rejected call
\* is left playing
C5_NoOrphanSound ==
    /\ playing.rejected = 0
    /\ (op = "resumeSpeak" /\ ret # "true")
       => /\ ret = "false"
          /\ Has(log, "stop")
          /\ Has(log, "destroy")
          /\ Pos(log, "stop") < Pos(log, "destroy")

\* a call that had started its sound was rejected at its commit
C5_Witness ==
    /\ op = "resumeSpeak"
    /\ ret = "false"
    /\ Has(log, "startRejected")

\* C6: a request at IDLE priority, the idle fallback of update included, is
\* accepted only while no motion of priority NORMAL or FORCE is reserved or
\* still playing, and a playing NORMAL or FORCE motion is replaced only by
\* the commit of a reservation above IDLE
C6_IdleNeverInterrupts ==
    [][/\ ( /\ op' \in {"startMotion", "startRandomMotion", "update"}
            /\ Entered
            /\ NewestCall.priority = IDLE )
          => /\ state.reservedPriority < NORMAL
             /\ state.currentPriority < NORMAL \/ (op' = "update" /\ finished)
             /\ state'.current \in {state.current, NoSlot}
       /\ ( /\ op' \in {"startMotion", "startRandomMotion", "update"}
            /\ state.reservedPriority >= NORMAL )
          => /\ state'.reserved # NoSlot
             /\ state'.reservedPriority >= NORMAL
       /\ ( /\ op' \in {"startMotion", "startRandomMotion"}
            /\ state.currentPriority >= NORMAL )
          => /\ state'.current = state.current
             /\ state'.currentPriority = state.currentPriority
             /\ state'.reserved # state.reserved => state'.reservedPriority > IDLE
       /\ \A k \in 1 .. MaxCalls :
            ( /\ Commits(k)
              /\ state.currentPriority >= NORMAL
              /\ state' # state )
            => state.reservedPriority > IDLE]_vars

\* an IDLE request was refused while a NORMAL or FORCE motion is playing
\* and a sound is not
C6_Witness ==
    /\ op \in {"startMotion", "startRandomMotion"}
    /\ ret = "false"
    /\ ~playingSound
    /\ ~finished
    /\ state.currentPriority = NORMAL
    /\ state.reservedPriority = NONE

\* index i of group g is defined, not marked failed and not active in st
Eligible(st, g, i) ==
    /\ <<g, i>> \in Slots
    /\ slot[<<g, i>>] # "failed"
    /\ st.reserved # <<g, i>>
    /\ st.current # <<g, i>>

\* C8: startRandomMotion hands startMotion only an index of its group that
\* is not failed and not active when chosen; otherwise it resolves false
\* and reserves nothing. Stated on the steps: every startRandomMotion step
\* either resolves false with MotionState and the suspended calls
\* unchanged, or suspends a call for an eligible index of a defined group
C8_RandomSelection ==
    [][/\ op' = "startRandomMotion"
          => \/ /\ ret' = "false"
                /\ state' = state
                /\ calls' = calls
             \/ /\ Entered
                /\ ret' = "pending"
                /\ Eligible(state, NewestCall.group, NewestCall.index)
                /\ state'.reserved = SlotOf(NewestCall)
       /\ (op' = "update" /\ Entered)
          => /\ NewestCall.group = IdleGroup
             /\ Eligible(complete(state), NewestCall.group, NewestCall.index)]_vars

\* a random motion of one group was chosen while a motion of the other
\* group is playing
C8_Witness ==
    /\ op = "startRandomMotion"
    /\ ret = "pending"
    /\ ~finished
    /\ state.current # NoSlot
    /\ state.reserved # NoSlot
    /\ state.reserved[1] # state.current[1]

NoIdleCandidate == \A i \in 0 .. (NIdle - 1) : slot[<<IdleGroup, i>>] = "failed"

\* C9 as stated: the idle request happens once per completion, so two
\* update frames in a row, with no motion completing in between, never both
\* request an idle motion
C9_OncePerCompletion ==
    [][~( /\ op = "update"
          /\ Has(log, "idleRequest")
          /\ op' = "update"
          /\ Has(log', "idleRequest") )]_vars

\* C9: every update frame on which playback is finished and, after
\* complete(), nothing is playing or reserved makes exactly one idle request,
\* at IDLE priority for the idle group, and no other frame makes one; with
\* no eligible idle candidate the request resolves false without error and
\* leaves MotionState idle
C9_IdleFallback ==
    [][op' = "update"
         => /\ Count(log', "idleRequest") <= 1
            /\ Has(log', "idleRequest") <=> (finished /\ state.reserved = NoSlot)
            /\ ret' \in {"none", "pending", "false"}
            /\ ~Has(log', "idleRequest") => ret' = "none" /\ calls' = calls
            /\ Has(log', "idleRequest")
               => \/ /\ Entered
                     /\ ret' = "pending"
                     /\ NewestCall.priority = IDLE
                     /\ NewestCall.group = IdleGroup
                     /\ ~NoIdleCandidate
                  \/ /\ ret' = "false"
                     /\ calls' = calls
                     /\ state' = IdleState]_vars

\* a frame requested an idle motion right after a motion finished and the
\* request was refused
C9_Witness ==
    /\ op = "update"
    /\ Has(log, "motionFinish")
    /\ Has(log, "idleRequest")
    /\ ret = "false"
    /\ state = IdleState

\* C10: a call that resolves true emitted motionStart exactly once, after
\* the MotionState commit and before motionActive and the runtime start,
\* all within the step of the commit; a call that resolves false, or is
\* still suspended, emitted none
C10_MotionStartOnce ==
    /\ ret = "true"
       => /\ Resumed
          /\ Count(log, "motionStart") = 1
          /\ Count(log, "start") = 1
          /\ Count(log, "_startMotion") = 1
          /\ 0 < Pos(log, "start")
          /\ Pos(log, "start") < Pos(log, "motionStart")
          /\ Pos(log, "motionStart") < Pos(log, "motionActive")
          /\ Pos(log, "motionActive") < Pos(log, "_startMotion")
          /\ motionActive
    /\ ret \in {"false", "pending", "none"}
       => /\ ~Has(log, "motionStart")
          /\ ~Has(log, "start")
          /\ ~Has(log, "_startMotion")

\* a call resolved true
C10_Witness ==
    /\ Resumed
    /\ ret = "true"
    /\ Has(log, "motionStart")
    /\ state.current # NoSlot

\* call k goes on from await loadMotion to speak in this step
Speaks(k) ==
    /\ op' = "resumeLoad"
    /\ ret' = "pending"
    /\ k \in DOMAIN calls
    /\ calls[k].pc = "load"
    /\ calls' = [calls EXCEPT ![k].pc = "speak"]

\* C11: with audio enabled a resuming call plays its sound argument when it
\* has one, else the sound registered for its slot, and then commits at
\* FORCE; with neither it starts no sound and commits at the priority it
\* was called with
C11_SoundChoice ==
    [][\A k \in 1 .. MaxCalls :
         /\ Speaks(k)
            => /\ cfgSound
               /\ calls[k].sound \/ SlotOf(calls[k]) \in sounds
               /\ log'[1] = (IF calls[k].sound THEN "speakArgument"
                                                ELSE "speakRegistered")
               /\ Has(log', "play")
               /\ playingSound'
         /\ (Commits(k) /\ op' = "resumeLoad")
            => /\ ~cfgSound \/ (~calls[k].sound /\ SlotOf(calls[k]) \notin sounds)
               /\ ~Has(log', "play")
               /\ playing' = playing
               /\ playingSound' = playingSound
               /\ ret' = "true" => state'.currentPriority = calls[k].priority
         /\ (Commits(k) /\ op' = "resumeSpeak" /\ ret' = "true")
            => /\ state'.currentPriority = FORCE
               /\ playing'.motion = playing.motion + 1]_vars

\* a call below FORCE with a sound argument, for a slot with a registered
\* sound, started the argument
C11_Witness ==
    /\ op = "resumeLoad"
    /\ ret = "pending"
    /\ log[1] = "speakArgument"
    /\ \E k \in DOMAIN calls :
         /\ calls[k].pc = "speak"
         /\ calls[k].sound
         /\ calls[k].priority < FORCE
         /\ SlotOf(calls[k]) \in sounds

\* C12 as stated: a startMotion for an unloaded slot with a definition, its
\* reservation still its own when it resumes, resolves true and leaves the
\* slot loaded
C12_LazyLoad ==
    [][\A k \in 1 .. MaxCalls :
         ( /\ Commits(k)
           /\ slot[SlotOf(calls[k])] = "unloaded"
           /\ state.reserved = SlotOf(calls[k]) )
         => /\ ret' = "true"
            /\ slot'[SlotOf(calls[k])] = "loaded"]_vars

\* C13 as stated: once construction is over the loaded slots are those of
\* the idle group with IDLE, all with ALL, none with NONE
C13_PreloadPolicy ==
    phase = "ready"
    => /\ preload = "IDLE"
          => \A s \in Slots : slot[s] = "loaded" <=> s[1] = IdleGroup
       /\ preload = "ALL" => \A s \in Slots : slot[s] = "loaded"
       /\ preload = "NONE" => \A s \in Slots : slot[s] # "loaded"

\* C14 as stated: without a motionPreload option construction requests no
\* preload
C14_DefaultNone ==
    (phase # "new" /\ preload = "absent") => requested = {}

C18_StopAllStopsSound ==
    op = "stopAllMotions"
    => /\ ~playingSound
       /\ PlayingTotal = 0

C20_ExpressionSet ==
    (op = "speak" /\ exprMgr /\ userOpts # <<>>)
    => (userOpts[Len(userOpts)].kind # "none" <=> Has(log, "setExpression"))

\* C21: mouthSync returns 0 whenever no analyser is attached, which is the
\* case in the initial state and right after stopSpeaking, stopAllMotions,
\* destroy and the completion of a sound; with an analyser it returns the
\* non-negative tenth nearest to the root of 20 times the mean square, 0 for
\* an all-zero buffer
C21_MouthSync ==
    /\ op \in {"init", "stopSpeaking", "stopAllMotions", "destroy", "soundComplete"}
       => ~analyser
    /\ op = "mouthSync"
       => /\ ~analyser => lip.value = 0
          /\ lip.value >= 0
          /\ (\A k \in 1 .. PcmLen : lip.pcm[k] = 0) => lip.value = 0
          /\ analyser
             => /\ (2 * lip.value + 1) * (2 * lip.value + 1) * PcmLen
                      > 80 * SumSquares(lip.pcm)
                /\ lip.value > 0
                   => (2 * lip.value - 1) * (2 * lip.value - 1) * PcmLen
                         <= 80 * SumSquares(lip.pcm)

\* mouthSync read a loud buffer on a manager destroyed while a sound of
\* speak was playing
C21_Witness ==
    /\ op = "mouthSync"
    /\ destroyed
    /\ playing.user > 0
    /\ ~analyser
    /\ lip.value = 0
    /\ \A k \in 1 .. PcmLen : lip.pcm[k] = MaxAmp

\* C22 as stated: destroy() on a manager already destroyed does not throw
\* and does nothing: no destroy event, no runtime stop, no destroy of the
\* expression manager, no field written
C22_DestroyIdempotent ==
    [][(destroyed /\ op' = "destroy")
         => /\ ret' # "error"
            /\ log' = <<>>
            /\ UNCHANGED manager]_vars

\* C23 as stated: on a destroyed manager startMotion, startRandomMotion and
\* loadMotion fail with an error, and no operation emits motionStart or
\* invokes the runtime start
C23_UseAfterDestroyFails ==
    destroyed
    => /\ op \in {"startMotion", "startRandomMotion", "loadMotion"} => ret = "error"
       /\ ~Has(log, "motionStart")
       /\ ~Has(log, "_startMotion")

\* C24: right after destroy() the flag is set, the analyser is detached,
\* MotionState is idle, the runtime stop was invoked, no sound is
\* registered, and the expression manager, if there is one, was destroyed
C24_DestroyTearsDown ==
    op = "destroy"
    => /\ destroyed
       /\ ~analyser
       /\ state = IdleState
       /\ Has(log, "_stopAllMotions")
       /\ sounds = {}
       /\ exprMgr => Has(log, "expressionManager.destroy")

\* destroy() ran on a manager with a registered sound, an expression
\* manager, a motion playing and a call suspended
C24_Witness ==
    /\ op = "destroy"
    /\ Has(log, "releaseSounds")
    /\ Has(log, "expressionManager.destroy")
    /\ motionActive
    /\ Len(calls) > 0

\* how often adapter a occurs in seq
Occurrences(seq, a) == Cardinality({j \in DOMAIN seq : seq[j] = a})

\* C25: runtimes holds every adapter handed to registerRuntime, as often
\* as it was registered, and is sorted by descending version
C25_RuntimesSorted ==
    /\ \A a \in Adapters : Occurrences(runtimes, a) = Occurrences(registered, a)
    /\ \A j, k \in DOMAIN runtimes : j < k => runtimes[j].version >= runtimes[k].version

\* a lower version was registered before a higher one
C25_Witness ==
    /\ op = "registerRuntime"
    /\ Len(registered) = MaxRuntimes
    /\ registered[1].version < registered[MaxRuntimes].version
    /\ runtimes[1].version > runtimes[MaxRuntimes].version

\* the registered adapters that accept src, by their place in the order of
\* registration
Accepting(src) == {j \in DOMAIN registered : src \in registered[j].accepts}

\* the accepting places of highest version
Highest(src) ==
    {j \in Accepting(src) :
        \A k \in Accepting(src) : registered[k].version <= registered[j].version}

\* C26 as stated: the adapter findRuntime returns is decided by the set of
\* registered adapters alone, the one of highest version among those that
\* accept, whatever the order of registration
C26_OrderIndependent ==
    \A src \in Sources :
        findRuntime(runtimes, src) =
            IF Accepting(src) = {} THEN NoRuntime
            ELSE CHOOSE a \in {registered[j] : j \in Highest(src)} : TRUE

\* C26 amended: findRuntime returns undefined exactly when no registered
\* adapter accepts; otherwise an accepting adapter of the highest accepting
\* version, and of those the one registered first
C26_FindRuntime ==
    \A src \in Sources :
        IF Accepting(src) = {}
        THEN findRuntime(runtimes, src) = NoRuntime
        ELSE findRuntime(runtimes, src) =
                 registered[CHOOSE j \in Highest(src) : \A k \in Highest(src) : j <= k]

\* a model was constructed from settings that two adapters of the highest
\* version accept, registered after an adapter of a lower version
C26_Witness ==
    /\ op = "newModel"
    /\ Len(registered) = MaxRuntimes
    /\ model.source = "model3.json"
    /\ registered[1].id = "cubism2"
    /\ registered[2].id = "cubism4b"
    /\ registered[3].id = "cubism4"
    /\ model.runtime = "cubism4b"

\* C27: the constructor throws exactly when no registered adapter accepts
\* the settings, and a model whose constructor threw has no internal
\* model, motion manager, texture or ticker registration
C27_NoRuntimeIsFatal ==
    /\ op = "newModel"
       => /\ (ret = "error") <=> (Accepting(model.source) = {})
          /\ (ret = "error") <=> (model.status = "thrown")
    /\ model.status # "ready" => model.parts = {}

\* the constructor threw although adapters are registered
C27_Witness ==
    /\ op = "newModel"
    /\ ret = "error"
    /\ model.status = "thrown"
    /\ Len(registered) = MaxRuntimes
    /\ model.source = "other"

\* C28: the promise of parse resolves only when the load of every asset
\* the settings refer to has resolved and its result is stored at the
\* asset's own place, nothing is ever stored elsewhere, and once a load has
\* failed the promise can only reject
C28_FullyResolved ==
    /\ parse = "resolved"
       => \A a \in refs : loads[a] = "resolved" /\ modelData[a] = a
    /\ \A a \in Assets : modelData[a] \in {"none", a}
    /\ \A a \in Assets \ refs : modelData[a] = "none"
    /\ (\E a \in refs : loads[a] = "rejected")
       => /\ parse \in {"pending", "rejected"}
          /\ settle(loads, refs) = "rejected"

\* parse resolved for settings that refer to every kind of asset
C28_Witness ==
    /\ op = "parseSettles"
    /\ parse = "resolved"
    /\ refs = Assets
    /\ \A a \in Assets : modelData[a] = a

\* C29 as stated: a startMotion that resolves false leaves no reservation
\* of its own: one that returns false before its first await leaves the
\* reservation as it found it or empty, and one whose commit is refused
\* while it holds the reservation gives the reservation up
C29_NoReservationLeft ==
    [][/\ (op' = "startMotion" /\ ret' = "false")
          => state'.reserved \in {state.reserved, NoSlot}
       /\ \A k \in 1 .. MaxCalls :
            (Commits(k) /\ ret' = "false" /\ state.reserved = SlotOf(calls[k]))
            => state'.reserved # SlotOf(calls[k])]_vars

\* C30 as stated: whenever playingSound is true it becomes false again
C30_PlayingSoundClears == playingSound ~> ~playingSound


\* C31 as stated: no startMotion commits a motion while a sound started
\* through speak has not yet completed
C31_NoMotionDuringSpeech ==
    [][\A k \in 1 .. MaxCalls :
         (Commits(k) /\ ret' = "true") => playing.user = 0]_vars

\* C32 as stated: at most one sound started by startMotion is playing at
\* any time, the sounds of calls still awaiting speak included
C32_OneMotionSound ==
    Cardinality({k \in DOMAIN calls : calls[k].pc = "speak"}) + playing.motion <= 1

C34_FinishFollowsStart ==
    [][/\ Has(log', "motionFinish")
          => /\ op' = "update"
             /\ motionActive
             /\ ~motionActive'
             /\ Count(log', "motionFinish") = 1
       /\ (motionActive' /\ ~motionActive) => Has(log', "motionStart")
       /\ (op = "update" /\ op' = "update" /\ finished)
          => ~Has(log', "motionFinish")]_vars

\* an update() frame emitted motionFinish for a motion that had played to
\* its end
C34_Witness ==
    /\ op = "update"
    /\ Has(log, "motionFinish")
    /\ ~motionActive
    /\ finished
    /\ state.current = NoSlot


C36_FalseWhileParsing ==
    (\E k \in DOMAIN parses : parses[k].status = "pending") => bitmap = FALSE

\* C37 as stated: once every Cubism 2 parse call has settled, resolved or
\* rejected, preferCreateImageBitmap equals the value it had before the
\* first call began, which is the value the first call saved
C37_RestoredWhenSettled ==
    (parses # <<>> /\ \A k \in DOMAIN parses : parses[k].status # "pending")
    => bitmap = parses[1].saved

\* C38: _render does nothing before the first update(); otherwise it calls
\* internalModel.update exactly when deltaTime is not 0, with the sum of the
\* dt of the update() calls since the previous render and with elapsedTime,
\* and leaves deltaTime 0; a render that follows a render advances nothing
C38_RenderAdvancesOnce ==
    [][op' = "_render"
       => /\ IF ~timer.wasUpdated
             THEN timer' = timer /\ log' = <<>>
             ELSE /\ timer'.deltaTime = 0
                  /\ timer'.elapsedTime = timer.elapsedTime
                  /\ timer'.advanced =
                        IF SumSeq(timer.dts) # 0
                        THEN <<SumSeq(timer.dts), timer.elapsedTime>>
                        ELSE <<>>
          /\ op = "_render" => timer'.advanced = <<>>]_vars

\* a render advanced the model by the time of two update() calls
C38_Witness ==
    /\ op = "_render"
    /\ timer.advanced # <<>>
    /\ timer.advanced[1] > MaxDt
    /\ timer.deltaTime = 0

\* C39 as stated: the pointermove (pointertap) handler is registered exactly
\* once when followMouse (touchEvents) is true and not at all when it is
\* false, after any setter calls and destroy()
C39_ListenersMatchFlags ==
    /\ interaction.pointermove = (IF interaction.followMouse THEN 1 ELSE 0)
    /\ interaction.pointertap = (IF interaction.touchEvents THEN 1 ELSE 0)

TypeOK ==
    /\ slot \in [Slots -> {"unloaded", "loaded", "failed"}]
    /\ Len(userOpts) = playing.user
    /\ ret \in {"none", "pending", "true", "false", "error"}
    /\ sounds \subseteq Slots
    /\ Len(calls) <= MaxCalls
    /\ PlayingTotal <= MaxSounds
    /\ destroyed \in BOOLEAN
    /\ lip.pcm \in PcmBuffers
    /\ Len(runtimes) = Len(registered)
    /\ Len(registered) <= MaxRuntimes
    /\ model.status \in {"none", "thrown", "pending", "ready"}
    /\ refs \subseteq Assets
    /\ loads \in [Assets -> {"idle", "pending", "resolved", "rejected"}]
    /\ parse \in {"idle", "pending", "resolved", "rejected"}
    /\ bitmap \in BOOLEAN
    /\ Len(parses) <= MaxParses
    /\ timer.deltaTime <= timer.elapsedTime
    /\ timer.elapsedTime <= MaxElapsed
    /\ interaction.status \in {"new", "ready", "destroyed"}
    /\ interaction.pointermove \in 0 .. 1
    /\ interaction.pointertap \in 0 .. 1

====
